---- MODULE Spec2Model ----
(***************************************************************************)
(* usbctl: discovery of USB devices under /sys/bus/usb/devices, the        *)
(* filters of actions/filter.rs and the CLI, and Apply::run, which binds   *)
(* or unbinds the selected devices.                                        *)
(*                                                                         *)
(* Strings are sequences of one-character strings, so that trimming,       *)
(* substring search and lossy conversion are computed, not assumed.        *)
(***************************************************************************)
EXTENDS Integers, Sequences, FiniteSets, TLC

\* ------------------------------------------------------------------ bounds
\* Entries the registry root (/sys/bus/usb/devices) lists at most.
MaxEntries == 2
\* Elements of a materialised device sequence at most.
MaxDevices == 3
\* Devices fed to a chain of filters at most.
MaxFeed == 2

\* ----------------------------------------------------------------- strings
IsWhitespace(c) == c \in {" ", "\n", "\t"}

RECURSIVE TrimStart(_)
TrimStart(s) ==
    IF s # <<>> /\ IsWhitespace(Head(s)) THEN TrimStart(Tail(s)) ELSE s

RECURSIVE TrimEnd(_)
TrimEnd(s) ==
    IF s # <<>> /\ IsWhitespace(s[Len(s)])
    THEN TrimEnd(SubSeq(s, 1, Len(s) - 1))
    ELSE s

\* str::trim
Trim(s) == TrimEnd(TrimStart(s))

\* str::contains: the empty pattern is contained in every string.
Contains(s, pat) ==
    \E i \in 1..(Len(s) - Len(pat) + 1) : SubSeq(s, i, i + Len(pat) - 1) = pat

\* A byte that is not valid UTF-8, and what a lossy conversion puts for it.
InvalidByte == "\\xFF"
ReplacementChar == "\\uFFFD"

\* OsStr::to_string_lossy
ToStringLossy(os) ==
    [i \in DOMAIN os |-> IF os[i] = InvalidByte THEN ReplacementChar ELSE os[i]]

\* ------------------------------------------------------------------ device
Online == "Online"
Offline == "Offline"

\* Status::from_bool
FromBool(online) == IF online THEN Online ELSE Offline

\* Device::matches
Matches(device, search, exact) ==
    LET port == ToStringLossy(device.port)
    IN  IF exact
        THEN port = search \/ device.name = search
        ELSE Contains(port, search) \/ Contains(device.name, search)

\* The base names of the registry entries, in listing order.
Digits == <<"1", "2", "3", "4", "5", "6", "7", "8", "9">>
PortOf(i) == IF i = 2 THEN <<"u", InvalidByte>> ELSE <<"1", "-", Digits[i]>>
Ports == {PortOf(i) : i \in 1..MaxEntries}

\* Contents of product files.
HostName == <<"H", "o", "s", "t">>
hostName == <<"h", "o", "s", "t">>
HOSTName == <<"H", "O", "S", "T">>
Contents == {HostName, hostName, HOSTName, <<" ", "m", "\n">>}

\* Search strings of the command line: none, one that matches a name, one
\* that matches a port, one that is a name in capitals, and two together.
SearchVecs == {<<>>, <<<<"m">>>>, <<<<"1">>>>, <<HOSTName>>, <<<<"m">>, <<"1", "-", "1">>>>}

\* ----------------------------------------------------------------- filters
\* A filter is a record: [k |-> "noop"], [k |-> "closure", id, acc, once],
\* [k |-> "match", search, exact, allow_host] or [k |-> "chain", first, second].
\* Filters take &mut self: the state a filter keeps is the trace of the
\* evaluations made so far, which every evaluation extends.
NoOpFilter == [k |-> "noop"]

ClosureFilter(id, acc, once) == [k |-> "closure", id |-> id, acc |-> acc, once |-> once]

\* DeviceMatch::new
DeviceMatch(search, exact, allow_host) ==
    [k |-> "match", search |-> search, exact |-> exact, allow_host |-> allow_host]

\* FilterExt::chain
Chain(first, second) == [k |-> "chain", first |-> first, second |-> second]

Call(id, device) == [id |-> id, port |-> device.port]

CallsOf(id, calls) == {i \in DOMAIN calls : calls[i].id = id}

\* NoOpFilter::filter
NoOpFilterFilter(f, device) == TRUE

\* ClosureFilter::filter with a stub closure: it selects the ports of acc, and
\* when once is set it selects nothing after its first call.
ClosureFilterFilter(f, device, calls) ==
    /\ device.port \in f.acc
    /\ (f.once => CallsOf(f.id, calls) = {})

\* A variant of DeviceMatch::filter that asks for every search string to match.
DeviceMatchFilterAll(f, device) ==
    IF ~f.allow_host /\ (Contains(device.name, HostName) \/ Contains(device.name, hostName))
    THEN FALSE
    ELSE \A i \in DOMAIN f.search : Matches(device, f.search[i], f.exact)

\* DeviceMatch::filter
DeviceMatchFilter(f, device) ==
    IF \/ f.search = <<>>
       \/ ~f.allow_host /\ (Contains(device.name, HostName) \/ Contains(device.name, hostName))
    THEN FALSE
    ELSE \E i \in DOMAIN f.search : Matches(device, f.search[i], f.exact)

\* A variant of the chain's operator that evaluates both sides (& for &&).
AndThenEager(a, b) == [res |-> a.res /\ b.res, calls |-> b.calls]

\* first && second of ChainFilter::filter: a is the first filter's outcome, b
\* the second's when evaluated after it.
AndThen(a, b) == IF a.res THEN b ELSE a

\* Filter::filter: the answer, and the trace extended by the leaf filters called.
RECURSIVE FilterEval(_, _, _)
FilterEval(f, device, calls) ==
    CASE f.k = "noop" ->
            [res |-> NoOpFilterFilter(f, device),
             calls |-> Append(calls, Call("NoOpFilter", device))]
      [] f.k = "closure" ->
            [res |-> ClosureFilterFilter(f, device, calls),
             calls |-> Append(calls, Call(f.id, device))]
      [] f.k = "match" ->
            [res |-> DeviceMatchFilter(f, device),
             calls |-> Append(calls, Call("DeviceMatch", device))]
      [] f.k = "chain" ->
            LET a == FilterEval(f.first, device, calls)
            IN  AndThen(a, FilterEval(f.second, device, a.calls))

\* ------------------------------------------------------------- Apply::run
On == "On"
Off == "Off"
Toggle == "Toggle"
Actions == {On, Off, Toggle}

\* A variant of the match of Apply::run with the arms of Toggle exchanged.
TransitionSwapped(action, status) ==
    CASE action = On /\ status = Online -> [msg |-> "RefuseOn", op |-> "none"]
      [] action = On /\ status = Offline -> [msg |-> "TurningOn", op |-> "bind"]
      [] action = Off /\ status = Online -> [msg |-> "TurningOff", op |-> "unbind"]
      [] action = Off /\ status = Offline -> [msg |-> "RefuseOff", op |-> "none"]
      [] action = Toggle /\ status = Online -> [msg |-> "TurningOn", op |-> "bind"]
      [] action = Toggle /\ status = Offline -> [msg |-> "TurningOff", op |-> "unbind"]

\* A variant of the match of Apply::run without the refusals: On and Off
\* write whatever the status is.
TransitionNoRefusal(action, status) ==
    CASE action = On -> [msg |-> "TurningOn", op |-> "bind"]
      [] action = Off -> [msg |-> "TurningOff", op |-> "unbind"]
      [] action = Toggle /\ status = Online -> [msg |-> "TurningOff", op |-> "unbind"]
      [] action = Toggle /\ status = Offline -> [msg |-> "TurningOn", op |-> "bind"]

\* match (action, device.online) of Apply::run: the message logged and the
\* write the arm asks for.
Transition(action, status) ==
    CASE action = On /\ status = Online -> [msg |-> "RefuseOn", op |-> "none"]
      [] action = On /\ status = Offline -> [msg |-> "TurningOn", op |-> "bind"]
      [] action = Off /\ status = Online -> [msg |-> "TurningOff", op |-> "unbind"]
      [] action = Off /\ status = Offline -> [msg |-> "RefuseOff", op |-> "none"]
      [] action = Toggle /\ status = Online -> [msg |-> "TurningOff", op |-> "unbind"]
      [] action = Toggle /\ status = Offline -> [msg |-> "TurningOn", op |-> "bind"]

Level(msg) ==
    CASE msg \in {"RefuseOn", "RefuseOff"} -> "warn"
      [] msg \in {"TurningOn", "TurningOff"} -> "info"
      [] msg = "Skipped" -> "debug"

LogLine(msg, device) ==
    [level |-> Level(msg), msg |-> msg, name |-> device.name, port |-> device.port]

\* A variant of the guard of the writes that forgets dry_run when unbinding.
WritesUnbindAlways(dry, op) == op = "unbind" \/ (op = "bind" /\ ~dry)

\* if !self.dry_run { device.on() / device.off() }
Writes(dry, op) == op # "none" /\ ~dry

\* Device::on / Device::off: the write of the port to the control file.
WriteOf(op, device, ok, n) == [op |-> op, port |-> device.port, ok |-> ok, n |-> n]

\* A variant of the error of a failed write that lets the run go on, as a
\* discarded Result (let _ = device.on()) would.
FailureOfIgnored(op, device) == [kind |-> "running"]

\* device.on().context(TurnOn { device })? / device.off().context(TurnOff { device })?
FailureOf(op, device) ==
    [kind |-> IF op = "bind" THEN "TurnOn" ELSE "TurnOff",
     device |-> device,
     source |-> IF op = "bind" THEN "StatusError::On" ELSE "StatusError::Off"]

Running == [kind |-> "running"]
Finished == [kind |-> "Ok"]

\* The state of a run before its first element.
NewRun ==
    [n |-> 0, log |-> <<>>, writes |-> <<>>, calls |-> <<>>, result |-> Running]

\* A variant of the error arm of Apply::run that skips the error element.
OnFetchErrorSkip(r, item) == [r EXCEPT !.n = @ + 1]

\* device.context(Fetch)? of Apply::run
OnFetchError(r, item) ==
    [r EXCEPT !.n = @ + 1, !.result = [kind |-> "Fetch", source |-> item.err]]

\* A variant of the body of the loop that logs a confirmation only when it
\* writes, the log call moved inside if !self.dry_run.
RunBodyLogInsideGuard(r, item, action, flt, dry, ok) ==
    IF item.kind = "Err"
    THEN OnFetchError(r, item)
    ELSE
      LET device == item.dev
          n == r.n + 1
          sel == FilterEval(flt, device, r.calls)
          t == Transition(action, device.online)
          logged == Append(r.log, LogLine(t.msg, device))
      IN  IF ~sel.res
          THEN [r EXCEPT !.n = n, !.calls = sel.calls,
                         !.log = Append(@, LogLine("Skipped", device))]
          ELSE IF ~Writes(dry, t.op)
          THEN [r EXCEPT !.n = n, !.calls = sel.calls,
                         !.log = IF t.op = "none" THEN logged ELSE @]
          ELSE [r EXCEPT !.n = n, !.calls = sel.calls, !.log = logged,
                         !.writes = Append(@, WriteOf(t.op, device, ok, n)),
                         !.result = IF ok THEN @ ELSE FailureOf(t.op, device)]

\* A variant of the body of the loop without the continue: a device the
\* filter rejects is logged as skipped and then handled like the others.
RunBodyNoContinue(r, item, action, flt, dry, ok) ==
    IF item.kind = "Err"
    THEN OnFetchError(r, item)
    ELSE
      LET device == item.dev
          n == r.n + 1
          sel == FilterEval(flt, device, r.calls)
          t == Transition(action, device.online)
          skipped == IF sel.res THEN r.log ELSE Append(r.log, LogLine("Skipped", device))
          logged == Append(skipped, LogLine(t.msg, device))
      IN  IF ~Writes(dry, t.op)
          THEN [r EXCEPT !.n = n, !.calls = sel.calls, !.log = logged]
          ELSE [r EXCEPT !.n = n, !.calls = sel.calls, !.log = logged,
                         !.writes = Append(@, WriteOf(t.op, device, ok, n)),
                         !.result = IF ok THEN @ ELSE FailureOf(t.op, device)]

\* The body of the loop of Apply::run on the element item; ok says whether the
\* write to the control file, if one is made, succeeds.
RunBody(r, item, action, flt, dry, ok) ==
    IF item.kind = "Err"
    THEN OnFetchError(r, item)
    ELSE
      LET device == item.dev
          n == r.n + 1
          sel == FilterEval(flt, device, r.calls)
          t == Transition(action, device.online)
          logged == Append(r.log, LogLine(t.msg, device))
      IN  IF ~sel.res
          THEN [r EXCEPT !.n = n, !.calls = sel.calls,
                         !.log = Append(@, LogLine("Skipped", device))]
          ELSE IF ~Writes(dry, t.op)
          THEN [r EXCEPT !.n = n, !.calls = sel.calls, !.log = logged]
          ELSE [r EXCEPT !.n = n, !.calls = sel.calls, !.log = logged,
                         !.writes = Append(@, WriteOf(t.op, device, ok, n)),
                         !.result = IF ok THEN @ ELSE FailureOf(t.op, device)]

\* ---------------------------------------------------------------- discover
None == [kind |-> "None"]
Some(device) == [kind |-> "Ok", dev |-> device]
Err(e) == [kind |-> "Err", err |-> e]
NoEntry == [fetch |-> "none"]

\* What the registry root can list for the base name port: an entry that
\* cannot be fetched, one whose metadata cannot be fetched, a file, and a
\* directory without a product file, with an unreadable one or with a
\* readable one.
EntriesOf(port) ==
    LET E(f, m, p, c) ==
            [port |-> port, fetch |-> f, meta |-> m, product |-> p,
             contents |-> c, removed |-> FALSE]
    IN  {E("err", "err", "absent", <<>>), E("ok", "err", "absent", <<>>),
         E("ok", "file", "absent", <<>>), E("ok", "dir", "absent", <<>>),
         E("ok", "dir", "unreadable", <<>>)}
        \cup {E("ok", "dir", "readable", c) : c \in Contents}

\* A variant of the NotFound arm that reports the error, as an unguarded
\* fs::metadata(..)? would.
OnNotFoundError(entry) == Err("Metadata")

\* Err(e) if e.kind() == NotFound => return Ok(None)
OnNotFound(entry) == None

\* A variant of Status::from_bool(driver.exists()) with the test negated.
StatusOfNegated(port, registry) == FromBool(port \notin registry)

\* Status::from_bool(driver.exists()), driver the entry of the driver-binding
\* registry named after the port.
StatusOf(port, registry) == FromBool(port \in registry)

\* A variant of the closure's product test that takes every directory.
HasProductAlways(entry) == TRUE

\* product_file.exists()
HasProduct(entry) == entry.product # "absent"

\* The closure discover() maps over the entries of the registry root.
MapEntry(entry, registry) ==
    IF entry.fetch = "err" THEN Err("FetchEntry")
    ELSE IF entry.meta = "notfound" THEN OnNotFound(entry)
    ELSE IF entry.meta = "err" THEN Err("Metadata")
    ELSE IF entry.meta # "dir" THEN None
    ELSE IF ~HasProduct(entry) THEN None
    ELSE IF entry.product # "readable" THEN Err("ReadFile")
    ELSE Some([port |-> entry.port,
               name |-> Trim(entry.contents),
               online |-> StatusOf(entry.port, registry)])

\* -------------------------------------------------------------------- state
VARIABLES
    action,     \* the Action given to Apply::run
    dry_run,    \* Apply::dry_run
    filter,     \* Apply::filter
    bound,      \* the ports that have an entry in the driver-binding registry
    dirpos,     \* the entries fs::read_dir has handed out
    cur,        \* the entry the closure of discover() is working on
    pending,    \* the element the loop of Apply::run has pulled
    pc,         \* where the pipeline is: "next", "map", "body" or "done"
    run,        \* the run: elements pulled, log, writes, filter calls, result
    last,       \* the closure's last call: the entry, the driver-binding registry
                \* it saw, and what it returned
    devices,    \* a materialised device sequence given to Apply::new
    wet,        \* a run over devices with dry_run = false
    dry,        \* a run over devices with dry_run = true
    stubs,      \* three stub closures, as ClosureFilter records
    fed,        \* the devices fed to the chains of the stubs so far
    chainAB,    \* the state of chain(A, B): its answers and its calls
    chainL,     \* the state of chain(chain(A, B), C)
    chainR      \* the state of chain(A, chain(B, C))

pipeVars == <<action, dry_run, filter, bound, dirpos, cur, pending, pc, run, last>>
seqVars == <<devices, wet, dry>>
chainVars == <<stubs, fed, chainAB, chainL, chainR>>
vars == <<pipeVars, seqVars, chainVars>>

\* The filters a run is given: the default of Apply::new, or the CLI's.
Filters ==
    {NoOpFilter}
    \cup {DeviceMatch(s, e, a) : s \in SearchVecs, e \in BOOLEAN, a \in BOOLEAN}

\* The closure of discover() has not been called.
NoCall == [entry |-> NoEntry, registry |-> {}, out |-> None]

NoChain == [sel |-> <<>>, calls |-> <<>>, marks |-> <<>>]

SeqIdle == devices = <<>> /\ wet = NewRun /\ dry = NewRun
ChainIdle ==
    /\ stubs = <<>> /\ fed = <<>>
    /\ chainAB = NoChain /\ chainL = NoChain /\ chainR = NoChain
PipeIdle ==
    /\ bound = {} /\ dirpos = 0 /\ cur = NoEntry /\ pending = None
    /\ pc = "done" /\ run = NewRun /\ last = NoCall /\ dry_run = FALSE

\* apply() of the CLI, or any caller of Apply::new(discover()?): the registry
\* root is open and nothing has been read from it. No driver is bound yet: the
\* environment binds and unbinds the driver of a device while the device is
\* in flight, so a record can be built from either state of the registry.
Init ==
    /\ action \in Actions
    /\ dry_run \in BOOLEAN
    /\ filter \in Filters
    /\ bound = {}
    /\ dirpos = 0
    /\ cur = NoEntry
    /\ pending = None
    /\ pc = "next"
    /\ run = NewRun
    /\ last = NoCall
    /\ SeqIdle
    /\ ChainIdle

\* ReadDir::next hands out one more entry of the registry root.
ReadDirNext ==
    /\ pc = "next"
    /\ dirpos < MaxEntries
    /\ \E e \in EntriesOf(PortOf(dirpos + 1)) : cur' = e
    /\ dirpos' = dirpos + 1
    /\ pc' = "map"
    /\ UNCHANGED <<action, dry_run, filter, bound, pending, run, last>>
    /\ UNCHANGED <<seqVars, chainVars>>

\* ReadDir::next returns None: the loop of Apply::run ends and run returns Ok(()).
ReadDirEnd ==
    /\ pc = "next"
    /\ run' = [run EXCEPT !.result = Finished]
    /\ pc' = "done"
    /\ UNCHANGED <<action, dry_run, filter, bound, dirpos, cur, pending, last>>
    /\ UNCHANGED <<seqVars, chainVars>>

\* The environment removes the entry that was just listed, before the closure
\* fetches its metadata.
EnvRemove ==
    /\ pc = "map"
    /\ cur.fetch = "ok"
    /\ cur.meta \in {"dir", "file"}
    /\ cur' = [cur EXCEPT !.meta = "notfound", !.product = "absent",
                          !.contents = <<>>, !.removed = TRUE]
    /\ UNCHANGED <<action, dry_run, filter, bound, dirpos, pending, pc, run, last>>
    /\ UNCHANGED <<seqVars, chainVars>>

\* The closure of discover() on the listed entry, and filter_map(transpose):
\* Ok(None) is dropped and the next entry is asked for, anything else is the
\* element the loop of Apply::run receives.
MapStep ==
    /\ pc = "map"
    /\ LET out == MapEntry(cur, bound)
       IN  /\ last' = [entry |-> cur, registry |-> bound, out |-> out]
           /\ pending' = out
           /\ pc' = IF out.kind = "None" THEN "next" ELSE "body"
    /\ cur' = NoEntry
    /\ UNCHANGED <<action, dry_run, filter, bound, dirpos, run>>
    /\ UNCHANGED <<seqVars, chainVars>>

\* The device in flight: listed and not yet built, or built and not yet
\* handled by the loop of Apply::run.
InFlight ==
    IF pc = "map" /\ cur.fetch = "ok" /\ cur.meta = "dir" /\ cur.product = "readable"
    THEN {cur.port}
    ELSE IF pc = "body" /\ pending.kind = "Ok" THEN {pending.dev.port} ELSE {}

\* The environment binds the driver to the device in flight.
EnvBind ==
    /\ \E p \in InFlight \ bound : bound' = bound \cup {p}
    /\ UNCHANGED <<action, dry_run, filter, dirpos, cur, pending, pc, run, last>>
    /\ UNCHANGED <<seqVars, chainVars>>

\* The environment unbinds the driver from the device in flight.
EnvUnbind ==
    /\ \E p \in InFlight \cap bound : bound' = bound \ {p}
    /\ UNCHANGED <<action, dry_run, filter, dirpos, cur, pending, pc, run, last>>
    /\ UNCHANGED <<seqVars, chainVars>>

\* A variant of the registry's update in which a failed write undoes the
\* successful writes issued before it in the run.
RegistryRollback(registry, r, r2) ==
    IF Len(r2.writes) = Len(r.writes)
    THEN registry
    ELSE LET w == r2.writes[Len(r2.writes)]
             binds == {r.writes[k].port : k \in {j \in DOMAIN r.writes :
                          r.writes[j].ok /\ r.writes[j].op = "bind"}}
             unbinds == {r.writes[k].port : k \in {j \in DOMAIN r.writes :
                          r.writes[j].ok /\ r.writes[j].op = "unbind"}}
         IN  IF ~w.ok
             THEN (registry \ binds) \cup unbinds
             ELSE IF w.op = "bind" THEN registry \cup {w.port} ELSE registry \ {w.port}

\* What the writes of the step from r to r2 do to the driver-binding registry:
\* a successful write to bind adds the port, one to unbind removes it.
Registry(registry, r, r2) ==
    IF Len(r2.writes) = Len(r.writes) \/ ~r2.writes[Len(r2.writes)].ok
    THEN registry
    ELSE LET w == r2.writes[Len(r2.writes)]
         IN  IF w.op = "bind" THEN registry \cup {w.port} ELSE registry \ {w.port}

\* A variant of the turn of the loop that reads the status of the device again
\* from the registry before it decides.
LoopBodyRecheck ==
    /\ pc = "body"
    /\ \E ok \in BOOLEAN :
          LET fresh == IF pending.kind = "Ok"
                       THEN Some([pending.dev EXCEPT
                                    !.online = StatusOf(pending.dev.port, bound)])
                       ELSE pending
          IN  /\ run' = RunBody(run, fresh, action, filter, dry_run, ok)
              /\ bound' = Registry(bound, run, run')
    /\ pc' = IF run'.result.kind = "running" THEN "next" ELSE "done"
    /\ pending' = None
    /\ UNCHANGED <<action, dry_run, filter, dirpos, cur, last>>
    /\ UNCHANGED <<seqVars, chainVars>>

\* One turn of the loop of Apply::run on the element pulled.
LoopBody ==
    /\ pc = "body"
    /\ \E ok \in BOOLEAN :
          /\ run' = RunBody(run, pending, action, filter, dry_run, ok)
          /\ bound' = Registry(bound, run, run')
    /\ pc' = IF run'.result.kind = "running" THEN "next" ELSE "done"
    /\ pending' = None
    /\ UNCHANGED <<action, dry_run, filter, dirpos, cur, last>>
    /\ UNCHANGED <<seqVars, chainVars>>

Next ==
    \/ ReadDirNext
    \/ ReadDirEnd
    \/ EnvRemove
    \/ MapStep
    \/ EnvBind
    \/ EnvUnbind
    \/ LoopBody

Spec == Init /\ [][Next]_vars

\* ------------------------------------------- runs over a given device sequence
\* Apply::new takes any IntoIterator of Result<Device, DiscoveryError>. Here
\* the sequence is materialised, and two runs consume it with the same action
\* and filter, one with dry_run = false (wet) and one with dry_run = true.
Names == {<<"m">>, HostName}
DiscoveryErrors == {"Metadata", "ReadFile"}

\* The elements a sequence can hold: a device, whose port is the base name of
\* the element's position, or a discovery error.
ItemShapes ==
    {Some([port |-> <<>>, name |-> n, online |-> st]) :
        n \in Names, st \in {Online, Offline}}
    \cup {Err(e) : e \in DiscoveryErrors}

ItemAt(shape, i) ==
    IF shape.kind = "Ok" THEN Some([shape.dev EXCEPT !.port = PortOf(i)]) ELSE shape

DeviceSeqs ==
    UNION {{[i \in 1..n |-> ItemAt(sh[i], i)] : sh \in [1..n -> ItemShapes]} :
              n \in 0..MaxDevices}

\* The filters of these runs: the default, the CLI's, a stateful closure that
\* selects the first device it is asked about only, and a chain.
SeqFilters ==
    {NoOpFilter,
     DeviceMatch(<<<<"m">>>>, FALSE, FALSE),
     ClosureFilter("A", {PortOf(i) : i \in 1..(MaxDevices + 1)}, TRUE),
     Chain(ClosureFilter("A", {PortOf(1)}, FALSE), DeviceMatch(<<<<"1">>>>, FALSE, TRUE))}

InitSeq ==
    /\ action \in Actions
    /\ filter \in SeqFilters
    /\ devices \in DeviceSeqs
    /\ wet = NewRun
    /\ dry = NewRun
    /\ PipeIdle
    /\ ChainIdle

\* One turn of the loop of the run with dry_run = false.
WetStep ==
    /\ wet.result.kind = "running"
    /\ wet.n < Len(devices)
    /\ \E ok \in BOOLEAN :
          wet' = RunBody(wet, devices[wet.n + 1], action, filter, FALSE, ok)
    /\ UNCHANGED <<devices, dry, pipeVars, chainVars>>

\* The sequence is exhausted: the run with dry_run = false returns Ok(()).
WetEnd ==
    /\ wet.result.kind = "running"
    /\ wet.n = Len(devices)
    /\ wet' = [wet EXCEPT !.result = Finished]
    /\ UNCHANGED <<devices, dry, pipeVars, chainVars>>

\* One turn of the loop of the run with dry_run = true.
DryStep ==
    /\ dry.result.kind = "running"
    /\ dry.n < Len(devices)
    /\ \E ok \in BOOLEAN :
          dry' = RunBody(dry, devices[dry.n + 1], action, filter, TRUE, ok)
    /\ UNCHANGED <<devices, wet, pipeVars, chainVars>>

\* The sequence is exhausted: the run with dry_run = true returns Ok(()).
DryEnd ==
    /\ dry.result.kind = "running"
    /\ dry.n = Len(devices)
    /\ dry' = [dry EXCEPT !.result = Finished]
    /\ UNCHANGED <<devices, wet, pipeVars, chainVars>>

NextSeq == WetStep \/ WetEnd \/ DryStep \/ DryEnd

SpecSeq == InitSeq /\ [][NextSeq]_vars

\* ------------------------------------------------------- chains of filters
\* Three stub closures A, B and C that record their calls, and the chains
\* chain(A, B), chain(chain(A, B), C) and chain(A, chain(B, C)), each fed the
\* same devices. marks[i] is the length of the trace after the i-th device.
StubIds == <<"A", "B", "C">>

StubsOf(accs, onces) == [i \in 1..3 |-> ClosureFilter(StubIds[i], accs[i], onces[i])]

FedDevice(port) == [port |-> port, name |-> <<"m">>, online |-> Online]

\* filter.filter(&device) on a filter whose state is c.
Feed(c, f, device) ==
    LET e == FilterEval(f, device, c.calls)
    IN  [sel |-> Append(c.sel, e.res),
         calls |-> e.calls,
         marks |-> Append(c.marks, Len(e.calls))]

InitChain ==
    /\ \E accs \in [1..3 -> SUBSET Ports], onces \in [1..3 -> BOOLEAN] :
          stubs = StubsOf(accs, onces)
    /\ fed = <<>>
    /\ chainAB = NoChain
    /\ chainL = NoChain
    /\ chainR = NoChain
    /\ action = On
    /\ filter = NoOpFilter
    /\ PipeIdle
    /\ SeqIdle

\* One more device is given to the three chains.
FeedChains ==
    /\ stubs # <<>>
    /\ Len(fed) < MaxFeed
    /\ \E p \in Ports :
          /\ fed' = Append(fed, p)
          /\ chainAB' = Feed(chainAB, Chain(stubs[1], stubs[2]), FedDevice(p))
          /\ chainL' = Feed(chainL, Chain(Chain(stubs[1], stubs[2]), stubs[3]), FedDevice(p))
          /\ chainR' = Feed(chainR, Chain(stubs[1], Chain(stubs[2], stubs[3])), FedDevice(p))
    /\ UNCHANGED <<stubs, pipeVars, seqVars>>

NextChain == FeedChains

SpecChain == InitChain /\ [][NextChain]_vars

\* =================================================================== claims
ToLowerChar(c) ==
    CASE c = "H" -> "h" [] c = "O" -> "o" [] c = "S" -> "s" [] c = "T" -> "t"
      [] OTHER -> c

ToLower(s) == [i \in DOMAIN s |-> ToLowerChar(s[i])]

\* The lines and writes a step of the run adds.
NewLines == SubSeq(run'.log, Len(run.log) + 1, Len(run'.log))
NewWrites == SubSeq(run'.writes, Len(run.writes) + 1, Len(run'.writes))

OneLine(lines, level, msg, device) ==
    lines = <<[level |-> level, msg |-> msg, name |-> device.name, port |-> device.port]>>

OneWrite(writes, op, device) ==
    /\ Len(writes) = 1
    /\ writes[1].op = op
    /\ writes[1].port = device.port

\* C1: with dry_run = false, a turn of the loop on a device the filter accepts
\* does what the transition table says for (action, discovered status):
\* On+Online and Off+Offline write nothing and log one refusal warning;
\* On+Offline and Toggle+Offline issue one bind write for the port;
\* Off+Online and Toggle+Online issue one unbind write for the port.
C1_TransitionTable ==
    [][(/\ pc = "body" /\ pending.kind = "Ok" /\ ~dry_run
        /\ run'.n = run.n + 1
        /\ FilterEval(filter, pending.dev, run.calls).res)
       => LET d == pending.dev
              refuses(msg) == NewWrites = <<>> /\ OneLine(NewLines, "warn", msg, d)
              binds == OneWrite(NewWrites, "bind", d)
              unbinds == OneWrite(NewWrites, "unbind", d)
          IN  /\ (action = On /\ d.online = Online) => refuses("RefuseOn")
              /\ (action = On /\ d.online = Offline) => binds
              /\ (action = Off /\ d.online = Online) => unbinds
              /\ (action = Off /\ d.online = Offline) => refuses("RefuseOff")
              /\ (action = Toggle /\ d.online = Online) => unbinds
              /\ (action = Toggle /\ d.online = Offline) => binds]_vars

\* A run with dry_run = false under Toggle has unbound one device that was
\* online and bound one that was offline.
C1_Witness ==
    /\ ~dry_run /\ action = Toggle
    /\ Len(run.writes) = 2
    /\ run.writes[1].op = "unbind" /\ run.writes[2].op = "bind"

\* C2: with dry_run enabled no write to a control file is ever issued.
C2_DryRunNoWrite == dry_run => run.writes = <<>>

\* A dry run has gone through a device it would turn on and one it would
\* turn off, and has returned Ok.
C2_Witness ==
    /\ dry_run /\ run.result.kind = "Ok"
    /\ \E i, j \in DOMAIN run.log :
          run.log[i].msg = "TurningOn" /\ run.log[j].msg = "TurningOff"

\* The devices the run has received so far: one log line each.
IsMatch == filter.k = "match"

\* C4: with no search string, DeviceMatch selects no device whatever exact and
\* allow_host are: every device the run received was skipped, and the command
\* issues no write.
C4_EmptySearchSelectsNothing ==
    (IsMatch /\ filter.search = <<>>)
        => /\ \A i \in DOMAIN run.log : run.log[i].msg = "Skipped"
           /\ Len(run.log) = Len(run.calls)
           /\ run.writes = <<>>

\* A command with no search string and allow_host set has received two
\* devices, neither of them a host.
C4_Witness ==
    /\ IsMatch /\ filter.search = <<>> /\ filter.allow_host
    /\ Len(run.log) = 2
    /\ \A i \in DOMAIN run.log : run.log[i].name = <<"m">>

\* C5: without allow_host, DeviceMatch rejects every device whose name
\* contains "host" in any letter case; with allow_host, such a device is
\* selected exactly when it matches a search string.
C5_HostAnyCase ==
    IsMatch =>
        \A i \in DOMAIN run.log :
            LET l == run.log[i]
                d == [port |-> l.port, name |-> l.name]
            IN  Contains(ToLower(l.name), hostName)
                => IF filter.allow_host
                   THEN (l.msg # "Skipped")
                        <=> \E k \in DOMAIN filter.search :
                                Matches(d, filter.search[k], filter.exact)
                   ELSE l.msg = "Skipped"

\* C7: the closure of discover() returns nothing, and no error, for an entry
\* that is not a directory and for a directory without a product file; for a
\* directory with a readable product file it returns one device whose port is
\* the entry's base name; and an entry gives at most one element to the run.
C7_DiscoverSkips ==
    LET e == last.entry
        o == last.out
    IN  /\ e.fetch = "ok" =>
              /\ e.meta = "file" => o = None
              /\ (e.meta = "dir" /\ e.product = "absent") => o = None
              /\ (e.meta = "dir" /\ e.product = "readable")
                    => /\ o.kind = "Ok"
                       /\ o.dev.port = e.port
                       /\ e.port = PortOf(IF pc = "map" THEN dirpos - 1 ELSE dirpos)
        /\ pc = "body" => pending = o
        /\ run.n + (IF pc = "body" THEN 1 ELSE 0) <= dirpos - (IF pc = "map" THEN 1 ELSE 0)
        /\ o.kind = "None" => pending = None

\* After a device was given to the run, a directory without a product file
\* was skipped.
C7_Witness ==
    /\ last.entry.fetch = "ok" /\ last.entry.meta = "dir"
    /\ last.entry.product = "absent"
    /\ last.out = None
    /\ run.n = 1 /\ pc = "next"

\* C8: the status of a device record is Online iff the driver-binding registry
\* has an entry named after the port when the record is built.
C8_StatusFromRegistry ==
    last.out.kind = "Ok" =>
        /\ last.out.dev.online = Online <=> last.out.dev.port \in last.registry
        /\ last.out.dev.online = Offline <=> last.out.dev.port \notin last.registry

\* A record was built Online, and the environment has since unbound the device.
C8_Witness ==
    /\ last.out.kind = "Ok"
    /\ last.out.dev.online = Online
    /\ last.out.dev.port \notin bound
    /\ pc = "body"

\* C9: an entry removed after it was listed and before its metadata is
\* fetched gives no element, neither a device nor an error, and the run goes
\* on asking for the entries that remain.
C9_VanishedSkipped ==
    last.entry.fetch = "ok" /\ last.entry.removed
        => /\ last.out = None
           /\ pending = None
           /\ pc \in {"next", "map", "done"}
           /\ run.result.kind \in {"running", "Ok"}
           /\ pc = "done" => run.result.kind = "Ok"

\* An entry was removed and skipped, and the closure is at the entry after it.
C9_Witness ==
    /\ last.entry.fetch = "ok" /\ last.entry.removed
    /\ pc = "map"
    /\ cur.port # last.entry.port
    /\ cur.meta = "dir" /\ cur.product = "readable"

\* The confirmation lines of a log: "Turning on" and "Turning off".
Confirmations(log) == SelectSeq(log, LAMBDA l : l.msg \in {"TurningOn", "TurningOff"})

IsPrefix(s, t) == Len(s) <= Len(t) /\ SubSeq(t, 1, Len(s)) = s

Returned(r) == r.result.kind # "running"
WriteFailed(r) == r.result.kind \in {"TurnOn", "TurnOff"}

\* C3 as stated: a dry run and a run with dry_run = false over the same
\* device sequence, action and filter log the same confirmations.
C3_SameConfirmations ==
    (Returned(wet) /\ Returned(dry))
        => Confirmations(wet.log) = Confirmations(dry.log)

\* C3 amended: the confirmations of the run with dry_run = false are a prefix
\* of the dry run's, and are the same unless a write failed; when one failed,
\* they end with the confirmation of the device whose write failed.
C3_ConfirmationsUnlessWriteFails ==
    (Returned(wet) /\ Returned(dry))
        => LET w == Confirmations(wet.log)
               d == Confirmations(dry.log)
           IN  /\ IsPrefix(w, d)
               /\ ~WriteFailed(wet) => w = d
               /\ WriteFailed(wet) =>
                     /\ w # <<>>
                     /\ w[Len(w)].port = wet.result.device.port

\* Both runs have returned Ok over two devices, with one confirmation each.
C3_Witness ==
    /\ wet.result.kind = "Ok" /\ dry.result.kind = "Ok"
    /\ Len(Confirmations(dry.log)) = 2
    /\ Len(wet.writes) = 2

\* The position of the first error element of the device sequence, or 0.
FirstError ==
    LET errs == {i \in DOMAIN devices : devices[i].kind = "Err"}
    IN  IF errs = {} THEN 0 ELSE CHOOSE i \in errs : \A j \in errs : i <= j

PortsBefore(k) == {devices[i].dev.port : i \in {j \in 1..(k - 1) : devices[j].kind = "Ok"}}

\* C10: a run never goes past the first error element of its sequence: when it
\* pulls that element it returns Fetch wrapping that element's error, and the
\* filter was evaluated, and writes were issued, only for elements before it.
C10_AbortOnFetchError ==
    FirstError # 0 =>
        \A r \in {wet, dry} :
            /\ r.n <= FirstError
            /\ r.n = FirstError
                  => r.result = [kind |-> "Fetch", source |-> devices[FirstError].err]
            /\ r.result.kind = "Fetch" => r.n = FirstError
            /\ \A i \in DOMAIN r.calls : r.calls[i].port \in PortsBefore(FirstError)
            /\ \A i \in DOMAIN r.writes :
                  /\ r.writes[i].n < FirstError
                  /\ r.writes[i].port \in PortsBefore(FirstError)

\* A run wrote for the first device, returned Fetch at the error element after
\* it, and the sequence has a device after the error that the filter selects.
C10_Witness ==
    /\ Len(devices) = 3
    /\ devices[2].kind = "Err" /\ devices[3].kind = "Ok"
    /\ wet.result.kind = "Fetch" /\ wet.n = 2
    /\ Len(wet.writes) = 1
    /\ FilterEval(filter, devices[3].dev, wet.calls).res

\* The calls of the i-th device fed to a chain, and the trace before them.
Before(c, i) == SubSeq(c.calls, 1, IF i = 1 THEN 0 ELSE c.marks[i - 1])
During(c, i) == SubSeq(c.calls, (IF i = 1 THEN 0 ELSE c.marks[i - 1]) + 1, c.marks[i])

\* C6: chain(A, B) selects a device iff A selects it and B selects it; A is
\* called first, and B is not called when A rejects. chain(chain(A, B), C) and
\* chain(A, chain(B, C)) give the same answers and make the same calls in the
\* same order.
C6_ChainAndShortCircuit ==
    /\ \A i \in DOMAIN fed :
          LET d == FedDevice(fed[i])
              before == Before(chainAB, i)
              during == During(chainAB, i)
              a == ClosureFilterFilter(stubs[1], d, before)
              b == ClosureFilterFilter(stubs[2], d, before)
          IN  /\ during # <<>>
              /\ during[1] = [id |-> "A", port |-> fed[i]]
              /\ chainAB.sel[i] = (a /\ b)
              /\ ~a => Len(during) = 1
              /\ a => during = <<[id |-> "A", port |-> fed[i]], [id |-> "B", port |-> fed[i]]>>
    /\ chainL.sel = chainR.sel
    /\ chainL.calls = chainR.calls
    /\ chainL.marks = chainR.marks

\* Of two devices fed, A selected the first and B was called and rejected it;
\* A rejected the second and B was not called; C was never called.
C6_Witness ==
    /\ Len(fed) = 2
    /\ chainAB.calls = <<[id |-> "A", port |-> fed[1]], [id |-> "B", port |-> fed[1]],
                         [id |-> "A", port |-> fed[2]]>>
    /\ chainAB.sel = <<FALSE, FALSE>>
    /\ \A i \in DOMAIN chainL.calls : chainL.calls[i].id # "C"


\* C11: a failed bind write makes the run return TurnOn with that device and
\* the error of the write, a failed unbind write TurnOff with that device; the
\* failed write is the run's last, and no later element is pulled, filtered
\* or written.
C11_AbortOnWriteFailure ==
    /\ \A i \in DOMAIN wet.writes :
          LET w == wet.writes[i]
          IN  ~w.ok =>
                /\ i = Len(wet.writes)
                /\ wet.n = w.n
                /\ devices[w.n].kind = "Ok"
                /\ wet.result.kind = (IF w.op = "bind" THEN "TurnOn" ELSE "TurnOff")
                /\ wet.result.device = devices[w.n].dev
                /\ wet.result.source =
                      (IF w.op = "bind" THEN "StatusError::On" ELSE "StatusError::Off")
                /\ \A k \in DOMAIN wet.calls : wet.calls[k].port \in PortsBefore(w.n + 1)
    /\ WriteFailed(wet) =>
          /\ wet.writes # <<>>
          /\ ~wet.writes[Len(wet.writes)].ok
    /\ ~WriteFailed(dry)

\* After a successful write for the first device, the unbind write for the
\* second failed: the run returned TurnOff, and a third device that the
\* filter selects was never pulled.
C11_Witness ==
    /\ Len(devices) = 3
    /\ devices[3].kind = "Ok"
    /\ wet.result.kind = "TurnOff" /\ wet.n = 2
    /\ Len(wet.writes) = 2 /\ wet.writes[1].ok
    /\ FilterEval(filter, devices[3].dev, wet.calls).res


\* The calls a run's filter had made before the element at position i, the
\* lines the run logged for a port, and the writes it issued for position i.
CallsBefore(r, i) == SelectSeq(r.calls, LAMBDA c : c.port \in PortsBefore(i))
LinesOf(r, port) == SelectSeq(r.log, LAMBDA l : l.port = port)
WritesAt(r, i) == {k \in DOMAIN r.writes : r.writes[k].n = i}

\* The filter's answer for the device at position i when the run asked.
AcceptedAt(r, i) == FilterEval(filter, devices[i].dev, CallsBefore(r, i)).res

\* A device the action refuses: On when online, Off when offline.
IsRefusal(device) ==
    \/ action = On /\ device.online = Online
    \/ action = Off /\ device.online = Offline

\* C12: for a selected device that On finds online or Off finds offline, the
\* run issues no write and logs one refusal warning, does not return an error
\* for it and goes on with the next element; a run over devices that are all
\* refused returns Ok after the last of them.
C12_RefusalIsNotAnError ==
    \A r \in {wet, dry} :
        /\ \A i \in 1..r.n :
              (/\ devices[i].kind = "Ok"
               /\ IsRefusal(devices[i].dev)
               /\ AcceptedAt(r, i))
              => LET d == devices[i].dev
                 IN  /\ WritesAt(r, i) = {}
                     /\ \A k \in DOMAIN r.writes : r.writes[k].port # d.port
                     /\ LinesOf(r, d.port) =
                           <<[level |-> "warn",
                              msg |-> IF action = On THEN "RefuseOn" ELSE "RefuseOff",
                              name |-> d.name, port |-> d.port]>>
                     /\ WriteFailed(r) => r.result.device # d
                     /\ i = r.n => r.result.kind \in {"running", "Ok"}
                     /\ (i = r.n /\ i < Len(devices)) => r.result.kind = "running"
        /\ (/\ Returned(r)
            /\ \A i \in DOMAIN devices :
                  devices[i].kind = "Ok" /\ IsRefusal(devices[i].dev))
           => r.result = Finished /\ r.n = Len(devices)

\* Off was applied to a device already offline and then to one online: the
\* first was refused with a warning, the second unbound, and the run returned Ok.
C12_Witness ==
    /\ action = Off /\ Len(devices) = 2
    /\ wet.result.kind = "Ok"
    /\ wet.log[1].msg = "RefuseOff" /\ wet.log[1].level = "warn"
    /\ Len(wet.writes) = 1 /\ wet.writes[1].n = 2 /\ wet.writes[1].op = "unbind"


\* C13: a device the filter rejects is skipped: no write is issued for it
\* whatever the action and its status, one debug line says so, the run does
\* not return an error for it and goes on with the next element; so every
\* write carries the port of a device the filter accepted.
C13_RejectedIsSkipped ==
    \A r \in {wet, dry} :
        /\ \A i \in 1..r.n :
              (devices[i].kind = "Ok" /\ ~AcceptedAt(r, i))
              => LET d == devices[i].dev
                 IN  /\ WritesAt(r, i) = {}
                     /\ \A k \in DOMAIN r.writes : r.writes[k].port # d.port
                     /\ LinesOf(r, d.port) =
                           <<[level |-> "debug", msg |-> "Skipped",
                              name |-> d.name, port |-> d.port]>>
                     /\ WriteFailed(r) => r.result.device # d
                     /\ i = r.n => r.result.kind \in {"running", "Ok"}
                     /\ (i = r.n /\ i < Len(devices)) => r.result.kind = "running"
        /\ \A k \in DOMAIN r.writes :
              LET w == r.writes[k]
              IN  /\ w.n \in 1..r.n
                  /\ devices[w.n].kind = "Ok"
                  /\ devices[w.n].dev.port = w.port
                  /\ AcceptedAt(r, w.n)

\* Under Toggle the filter rejected the first device and accepted the second:
\* the only write is for the second, and the run returned Ok.
C13_Witness ==
    /\ action = Toggle /\ Len(devices) = 2
    /\ wet.result.kind = "Ok"
    /\ wet.log[1].msg = "Skipped"
    /\ Len(wet.writes) = 1 /\ wet.writes[1].port = PortOf(2)


\* The registry no longer agrees with the status recorded in the device.
Stale(device, registry) == device.online # StatusOf(device.port, registry)

\* C14: the turn of the loop on a device decides from the status recorded
\* when the closure of discover() built the record, whatever the registry
\* says by then: for an accepted device with dry_run = false it issues the
\* write of the transition table for (action, recorded status), so a bind for
\* a port that is already bound or an unbind for one already unbound, logs the
\* same line, fails only if the write itself fails, and changes the registry
\* by that one write only.
C14_StatusNotRechecked ==
    [][(pc = "body" /\ pending.kind = "Ok" /\ run'.n = run.n + 1)
       => LET d == pending.dev
              t == Transition(action, d.online)
              acc == FilterEval(filter, d, run.calls).res
          IN  /\ pending = last.out
              /\ d.online = StatusOf(d.port, last.registry)
              /\ acc => NewLines = <<LogLine(t.msg, d)>>
              /\ IF acc /\ ~dry_run /\ t.op # "none"
                 THEN /\ OneWrite(NewWrites, t.op, d)
                      /\ (t.op = "bind" /\ Stale(d, bound)) => d.port \in bound
                      /\ (t.op = "unbind" /\ Stale(d, bound)) => d.port \notin bound
                      /\ IF NewWrites[1].ok
                         THEN /\ run'.result.kind = "running"
                              /\ bound' = IF t.op = "bind"
                                          THEN bound \cup {d.port}
                                          ELSE bound \ {d.port}
                         ELSE /\ WriteFailed(run')
                              /\ bound' = bound
                 ELSE /\ NewWrites = <<>>
                      /\ run'.result.kind = "running"
                      /\ bound' = bound
    ]_vars

\* The record says Offline, the environment has bound the device since, and
\* the turn of the loop that is due writes a bind request for it.
C14_Witness ==
    /\ pc = "body" /\ pending.kind = "Ok"
    /\ action = On /\ ~dry_run
    /\ pending.dev.online = Offline
    /\ pending.dev.port \notin last.registry
    /\ pending.dev.port \in bound
    /\ FilterEval(filter, pending.dev, run.calls).res
    /\ ENABLED (LoopBody /\ Len(run'.writes) = Len(run.writes) + 1
                         /\ run'.writes[Len(run'.writes)].op = "bind"
                         /\ run'.writes[Len(run'.writes)].ok)


\* The ports of the entries listed before position k of the registry root.
ListedBefore(k) == {PortOf(i) : i \in 1..(k - 1)}

\* The write the loop issues for a device, if any.
DueWrite(device) ==
    IF FilterEval(filter, device, <<>>).res /\ ~dry_run
    THEN Transition(action, device.online).op
    ELSE "none"

\* C15: the loop pulls one element at a time, so the write for a device is
\* issued before the entry after it is examined; writes follow the order of
\* the sequence, at most one per device; and the effect of every successful
\* write is still in the registry afterwards, also when the run has returned
\* an error on a later element or on a later write.
C15_InterleavedNoRollback ==
    /\ pc \in {"next", "map"} => pending = None
    /\ pc = "map" =>
          /\ \A k \in DOMAIN run.writes : run.writes[k].port \in ListedBefore(dirpos)
          /\ cur.port \notin ListedBefore(dirpos)
          /\ (last.out.kind = "Ok" /\ DueWrite(last.out.dev) # "none")
                => /\ run.writes # <<>>
                   /\ run.writes[Len(run.writes)].port = last.out.dev.port
                   /\ run.writes[Len(run.writes)].op = DueWrite(last.out.dev)
    /\ \A k \in DOMAIN run.writes :
          /\ k > 1 => run.writes[k - 1].n < run.writes[k].n
          /\ \A j \in DOMAIN run.writes : j # k => run.writes[j].port # run.writes[k].port
          /\ k < Len(run.writes) => run.writes[k].ok
          /\ run.writes[k].ok =>
                IF run.writes[k].op = "bind"
                THEN run.writes[k].port \in bound
                ELSE run.writes[k].port \notin bound

\* The run returned Fetch on its second element after a successful bind
\* request for the first device, which is still bound.
C15_Witness ==
    /\ run.result.kind = "Fetch"
    /\ run.n = 2
    /\ Len(run.writes) = 1
    /\ run.writes[1].ok /\ run.writes[1].op = "bind" /\ run.writes[1].n = 1
    /\ run.writes[1].port \in bound

====
